---- MODULE Spec2Model ----
(***************************************************************************)
(* A model of the batchexecute transport of nlm:                           *)
(*   internal/rpc/rpc.go                   GetAPIParams, ClearAPIParamsCache,*)
(*                                         fetchAPIParamsFromPage, New, Do  *)
(*   internal/rpc/grpcendpoint/handler.go  Execute, Stream,                 *)
(*                                         generateRequestID                *)
(* Goroutines are the threads 1..NumThreads; each runs one call at a time,  *)
(* and pc[t] is its position in the code of that call.                      *)
(***************************************************************************)
EXTENDS Integers, Sequences, FiniteSets, TLC

\* ------------------------------------------------------------------ bounds
NumThreads == 2
\* The most calls made where termination is checked.
MaxLiveCalls == 3
\* The most source identifiers of a request to the encoders.
MaxSources == 2
MaxCalls == 3
\* The most calls the one caller of the dispatcher scenario makes.
MaxDispatchCalls == 4
\* The most newlines the server sends after the guard.
MaxNewlines == 2
\* The most bytes one Read of a streamed body returns.
MaxRead == 2

Threads == 1..NumThreads

\* --------------------------------------------------------------- constants
DefaultBuildVersion == "boq_labs-tailwind-frontend_20251120.08_p0"
DefaultSessionID == "-8913782897795119716"

\* The nil pointer; every other pointer is an index of heap.
Nil == 0

\* Cookie header values a caller may pass ("" is no cookies).
CookieValues == {"", "SID=abc"}

\* Values of the two override environment variables ("" is unset).
EnvBuildVersions == {"", "boq_labs-tailwind-frontend_env"}
EnvSessionIDs == {"", "-777"}

\* What the four pattern searches of fetchAPIParamsFromPage capture in a page.
\* Each capture group is non-empty when its pattern matches, so "" stands for
\* "no match" exactly as in the code (len(matches) > 1 fails).
PrimaryBl == "boq_labs-tailwind-frontend_primary"
AltBl == "boq_labs-tailwind-frontend_alt"
PrimarySid == "-11"
AltSid == "-22"

\* The outcomes of the GET of the root page: a network or read error, or a
\* page, given by what each of the four patterns captures in it.
FetchOutcomes ==
    [err : {TRUE}, blPrimary : {""}, sidPrimary : {""}, blAlt : {""}, sidAlt : {""}]
    \cup
    [err : {FALSE}, blPrimary : {"", PrimaryBl}, sidPrimary : {"", PrimarySid},
     blAlt : {"", AltBl}, sidAlt : {"", AltSid}]

\* The outcomes of the GET while the transport is exercised: an error, or a
\* page where both primary patterns match.
TransportFetchOutcomes ==
    {o \in FetchOutcomes :
        \/ o.err
        \/ o.blPrimary # "" /\ o.sidPrimary # "" /\ o.blAlt = "" /\ o.sidAlt = ""}

NotebookIDs == {"", "nb1"}

\* handler.go:240  the base of the request ids.
RequestIDBase == 1000000

\* ------------------------------------------------- strings (package strings)
\* A string is a sequence of characters, each a one-character string.

\* handler.go:116  the prefix against JSON hijacking.
Guard == <<")", "]", "}", "'">>

\* strings.HasPrefix
HasPrefix(s, p) == Len(s) >= Len(p) /\ SubSeq(s, 1, Len(p)) = p

\* strings.TrimPrefix
TrimPrefix(s, p) == IF HasPrefix(s, p) THEN SubSeq(s, Len(p) + 1, Len(s)) ELSE s

\* strings.TrimLeft(s, c) for a cutset of the one character c
RECURSIVE TrimLeft(_, _)
TrimLeft(s, c) == IF s # <<>> /\ Head(s) = c THEN TrimLeft(Tail(s), c) ELSE s

\* The first index at or after i where s holds c, or 0.
IndexFrom(s, c, i) ==
    LET hits == {j \in i..Len(s) : s[j] = c}
    IN IF hits = {} THEN 0 ELSE CHOOSE j \in hits : \A k \in hits : j <= k

\* strings.SplitN(s, "\n", 3): at most three fields, the last one unsplit.
SplitN3(s) ==
    LET i1 == IndexFrom(s, "\n", 1)
        i2 == IndexFrom(s, "\n", i1 + 1)
    IN IF i1 = 0 THEN <<s>>
       ELSE IF i2 = 0 THEN <<SubSeq(s, 1, i1 - 1), SubSeq(s, i1 + 1, Len(s))>>
       ELSE <<SubSeq(s, 1, i1 - 1), SubSeq(s, i1 + 1, i2 - 1), SubSeq(s, i2 + 1, Len(s))>>

\* ------------------------------------------------ JSON (package encoding/json)
\* A JSON value: t is its kind; s its characters (a string's decoded text, a
\* number's literal); a its elements (an array) or member values (an object);
\* k the member names of an object.
JNull == [t |-> "null", s |-> <<>>, a |-> <<>>, k |-> <<>>]
JTrue == [t |-> "bool", s |-> <<"t">>, a |-> <<>>, k |-> <<>>]
JFalse == [t |-> "bool", s |-> <<"f">>, a |-> <<>>, k |-> <<>>]
JNum(text) == [t |-> "num", s |-> text, a |-> <<>>, k |-> <<>>]
JStr(text) == [t |-> "str", s |-> text, a |-> <<>>, k |-> <<>>]
JArr(elems) == [t |-> "arr", s |-> <<>>, a |-> elems, k |-> <<>>]
JObj(names, values) == [t |-> "obj", s |-> <<>>, a |-> values, k |-> names]

Digits == {"0", "1", "2", "3", "4", "5", "6", "7", "8", "9"}
Whitespace == {" ", "\t", "\r", "\n"}
\* Characters below 0x20, which a JSON string may not hold unescaped.
ControlChars == {"\t", "\r", "\n", "\f", "<BS>"}

\* The result of a parse from an index: the value and the index after it.
ParseFail == [ok |-> FALSE, v |-> JNull, i |-> 0]
Parsed(v, i) == [ok |-> TRUE, v |-> v, i |-> i]

RECURSIVE SkipWS(_, _)
SkipWS(s, i) == IF i <= Len(s) /\ s[i] \in Whitespace THEN SkipWS(s, i + 1) ELSE i

RECURSIVE DigitRun(_, _)
DigitRun(s, i) == IF i <= Len(s) /\ s[i] \in Digits THEN DigitRun(s, i + 1) ELSE i

At(s, i, set) == i <= Len(s) /\ s[i] \in set

\* A number: -? (0 | [1-9][0-9]*) (. [0-9]+)? ([eE] [+-]? [0-9]+)?
ParseNumber(s, i) ==
    LET a == IF s[i] = "-" THEN i + 1 ELSE i
        b == IF At(s, a, {"0"}) THEN a + 1 ELSE DigitRun(s, a)
        c == IF At(s, b, {"."}) THEN DigitRun(s, b + 1) ELSE b
        e == IF At(s, c, {"e", "E"})
             THEN (IF At(s, c + 1, {"+", "-"}) THEN c + 2 ELSE c + 1)
             ELSE c
        d == IF e > c THEN DigitRun(s, e) ELSE c
    IN IF b > a /\ (At(s, b, {"."}) => c > b + 1) /\ (e > c => d > e)
       THEN Parsed(JNum(SubSeq(s, i, d - 1)), d)
       ELSE ParseFail

ParseLiteral(s, i, word, v) ==
    IF i + Len(word) - 1 <= Len(s) /\ SubSeq(s, i, i + Len(word) - 1) = word
    THEN Parsed(v, i + Len(word))
    ELSE ParseFail

\* The character an escape \c stands for ("" when \c is no escape). \u escapes
\* are not modelled: no body of the model holds one.
Unescape(c) ==
    CASE c = "\"" -> "\""
      [] c = "\\" -> "\\"
      [] c = "/" -> "/"
      [] c = "n" -> "\n"
      [] c = "t" -> "\t"
      [] c = "r" -> "\r"
      [] c = "f" -> "\f"
      [] c = "b" -> "<BS>"
      [] OTHER -> ""

\* A string, from the index after its opening quote.
RECURSIVE ParseString(_, _, _)
ParseString(s, i, acc) ==
    IF i > Len(s) \/ s[i] \in ControlChars THEN ParseFail
    ELSE IF s[i] = "\"" THEN Parsed(JStr(acc), i + 1)
    ELSE IF s[i] = "\\"
    THEN IF i + 1 > Len(s) \/ Unescape(s[i + 1]) = "" THEN ParseFail
         ELSE ParseString(s, i + 2, Append(acc, Unescape(s[i + 1])))
    ELSE ParseString(s, i + 1, Append(acc, s[i]))

RECURSIVE ParseValue(_, _), ParseElements(_, _, _), ParseMembers(_, _, _, _)

\* A value that begins at index i (no whitespace before it).
ParseValue(s, i) ==
    IF i > Len(s) THEN ParseFail
    ELSE CASE s[i] = "[" ->
                  IF At(s, SkipWS(s, i + 1), {"]"})
                  THEN Parsed(JArr(<<>>), SkipWS(s, i + 1) + 1)
                  ELSE ParseElements(s, SkipWS(s, i + 1), <<>>)
           [] s[i] = "{" ->
                  IF At(s, SkipWS(s, i + 1), {"}"})
                  THEN Parsed(JObj(<<>>, <<>>), SkipWS(s, i + 1) + 1)
                  ELSE ParseMembers(s, SkipWS(s, i + 1), <<>>, <<>>)
           [] s[i] = "\"" -> ParseString(s, i + 1, <<>>)
           [] s[i] = "n" -> ParseLiteral(s, i, <<"n", "u", "l", "l">>, JNull)
           [] s[i] = "t" -> ParseLiteral(s, i, <<"t", "r", "u", "e">>, JTrue)
           [] s[i] = "f" -> ParseLiteral(s, i, <<"f", "a", "l", "s", "e">>, JFalse)
           [] s[i] = "-" \/ s[i] \in Digits -> ParseNumber(s, i)
           [] OTHER -> ParseFail

\* The elements of an array from the element at index i on, to its "]".
ParseElements(s, i, acc) ==
    LET r == ParseValue(s, i)
        j == SkipWS(s, r.i)
    IN IF ~r.ok \/ j > Len(s) THEN ParseFail
       ELSE IF s[j] = "," THEN ParseElements(s, SkipWS(s, j + 1), Append(acc, r.v))
       ELSE IF s[j] = "]" THEN Parsed(JArr(Append(acc, r.v)), j + 1)
       ELSE ParseFail

\* The members of an object from the member name at index i on, to its "}".
ParseMembers(s, i, names, values) ==
    LET n == IF At(s, i, {"\""}) THEN ParseString(s, i + 1, <<>>) ELSE ParseFail
        c == SkipWS(s, n.i)
        r == ParseValue(s, SkipWS(s, c + 1))
        j == SkipWS(s, r.i)
    IN IF ~n.ok \/ ~At(s, c, {":"}) THEN ParseFail
       ELSE IF ~r.ok \/ j > Len(s) THEN ParseFail
       ELSE IF s[j] = ","
       THEN ParseMembers(s, SkipWS(s, j + 1), Append(names, n.v.s), Append(values, r.v))
       ELSE IF s[j] = "}"
       THEN Parsed(JObj(Append(names, n.v.s), Append(values, r.v)), j + 1)
       ELSE ParseFail

\* A whole text as one JSON value, whitespace allowed around it.
ParseJSON(text) ==
    LET r == ParseValue(text, SkipWS(text, 1))
    IN IF r.ok /\ SkipWS(text, r.i) > Len(text) THEN r ELSE ParseFail

\* handler.go:131-134  json.Unmarshal into a [][]interface{}: a syntax error,
\* or a value that is no array of arrays, is an error; null gives a nil slice,
\* outside and inside.
UnmarshalOuter(text) ==
    LET r == ParseJSON(text)
    IN IF ~r.ok THEN [err |-> TRUE, outer |-> <<>>]
       ELSE IF r.v.t = "null" THEN [err |-> FALSE, outer |-> <<>>]
       ELSE IF r.v.t # "arr" THEN [err |-> TRUE, outer |-> <<>>]
       ELSE IF \E n \in 1..Len(r.v.a) : r.v.a[n].t \notin {"arr", "null"}
       THEN [err |-> TRUE, outer |-> <<>>]
       ELSE [err |-> FALSE, outer |-> [n \in 1..Len(r.v.a) |-> r.v.a[n].a]]

\* The results of Execute: err is "" for a nil error; data is the payload.
ErrParse == "parse outer response"
ErrFormat == "invalid response format"
ErrType == "invalid response data type"
Failure(e) == [err |-> e, data |-> <<>>, status |-> 0, body |-> <<>>, cause |-> ""]
Success(data) == [err |-> "", data |-> data, status |-> 0, body |-> <<>>, cause |-> ""]

\* StripGuard, were leading newlines stripped from a body with no guard too.
StripGuardNewlines(body) == TrimLeft(TrimPrefix(body, Guard), "\n")

\* handler.go:115-119  the guard and the newlines after it are stripped.
StripGuard(body) ==
    IF HasPrefix(body, Guard) THEN TrimLeft(TrimPrefix(body, Guard), "\n") ELSE body

\* FirstChunk, were the last field taken.
FirstChunkLast(bodyStr) == SplitN3(bodyStr)[Len(SplitN3(bodyStr))]

\* handler.go:123-127  the second newline-delimited field, when there is one.
FirstChunk(bodyStr) ==
    IF Len(SplitN3(bodyStr)) >= 2 THEN SplitN3(bodyStr)[2] ELSE bodyStr

\* ExtractPayload, were a short first element reported as a type error.
ExtractPayloadShortAsType(outerArray) ==
    IF Len(outerArray) = 0 \/ Len(outerArray[1]) < 3 THEN Failure(ErrType)
    ELSE IF outerArray[1][3].t # "str" THEN Failure(ErrType)
    ELSE Success(outerArray[1][3].s)

\* ExtractPayload, were the payload taken from index 1.
ExtractPayloadSecond(outerArray) ==
    IF Len(outerArray) = 0 \/ Len(outerArray[1]) < 3 THEN Failure(ErrFormat)
    ELSE IF outerArray[1][2].t # "str" THEN Failure(ErrType)
    ELSE Success(outerArray[1][2].s)

\* handler.go:136-151  the payload is the string at index 2 of the first
\* outer element.
ExtractPayload(outerArray) ==
    IF Len(outerArray) = 0 \/ Len(outerArray[1]) < 3 THEN Failure(ErrFormat)
    ELSE IF outerArray[1][3].t # "str" THEN Failure(ErrType)
    ELSE Success(outerArray[1][3].s)

\* handler.go:114-151  the framing part of Execute.
Unframe(body) ==
    LET u == UnmarshalOuter(FirstChunk(StripGuard(body)))
    IN IF u.err THEN Failure(ErrParse) ELSE ExtractPayload(u.outer)

\* ------------------------------------------------ the server's responses
\* What the server puts on the wire. A frame describes a body by its parts:
\* the guard, the newlines after it, the length field, the chunk and what
\* follows the chunk; Body(frame) is the text the transport receives.

RECURSIVE EscapeString(_)
EscapeString(s) ==
    IF s = <<>> THEN <<>>
    ELSE (CASE Head(s) = "\"" -> <<"\\", "\"">>
            [] Head(s) = "\\" -> <<"\\", "\\">>
            [] Head(s) = "\n" -> <<"\\", "n">>
            [] OTHER -> <<Head(s)>>) \o EscapeString(Tail(s))

RECURSIVE Marshal(_), MarshalList(_), MarshalMembers(_, _)
Marshal(v) ==
    CASE v.t = "null" -> <<"n", "u", "l", "l">>
      [] v.t = "bool" -> IF v = JTrue THEN <<"t", "r", "u", "e">>
                         ELSE <<"f", "a", "l", "s", "e">>
      [] v.t = "num" -> v.s
      [] v.t = "str" -> <<"\"">> \o EscapeString(v.s) \o <<"\"">>
      [] v.t = "arr" -> <<"[">> \o MarshalList(v.a) \o <<"]">>
      [] v.t = "obj" -> <<"{">> \o MarshalMembers(v.k, v.a) \o <<"}">>

MarshalList(vs) ==
    IF vs = <<>> THEN <<>>
    ELSE Marshal(Head(vs))
         \o (IF Len(vs) > 1 THEN <<",">> \o MarshalList(Tail(vs)) ELSE <<>>)

MarshalMembers(names, values) ==
    IF names = <<>> THEN <<>>
    ELSE Marshal(JStr(Head(names))) \o <<":">> \o Marshal(Head(values))
         \o (IF Len(names) > 1 THEN <<",">> \o MarshalMembers(Tail(names), Tail(values))
             ELSE <<>>)

\* The payload {"a":1} and the tag "wrb.fr" of the exemplar response.
Payload == <<"{", "\"", "a", "\"", ":", "1", "}">>
Tag == JStr(<<"w", "r", "b", ".", "f", "r">>)

\* What may stand at index 2 of an outer element.
StringThirds == {JStr(Payload), JStr(<<>>), JStr(<<"a", "\\", "\n", "/">>)}
OtherThirds ==
    {JNull, JNum(<<"7">>), JNum(<<"-", "1", ".", "5", "e", "3">>), JTrue,
     JArr(<<JNum(<<"1">>)>>), JObj(<<<<"a">>>>, <<JNum(<<"1">>)>>)}
Thirds == StringThirds \cup OtherThirds

\* First outer elements: long enough, too short, or no array at all.
LongFirsts ==
    {JArr(<<Tag, JNull, x>>) : x \in Thirds}
    \cup {JArr(<<Tag, JNull, x, JNull, JNull, JNull>>) : x \in Thirds}
ShortFirsts == {JArr(<<>>), JArr(<<Tag>>), JArr(<<Tag, JNull>>), JNull}
BadFirsts == {JNum(<<"5">>), JStr(Payload)}

\* Later outer elements.
Seconds == {JArr(<<Tag, JNull, JStr(<<"z">>)>>), JNull, JNum(<<"5">>)}
PairedFirsts ==
    {JArr(<<Tag, JNull, JStr(Payload)>>), JArr(<<Tag, JNull, JNull>>), JArr(<<Tag>>), JNull}

\* The JSON values a chunk may hold.
ChunkValues ==
    {JArr(<<f>>) : f \in LongFirsts \cup ShortFirsts \cup BadFirsts}
    \cup {JArr(<<f, g>>) : f \in PairedFirsts, g \in Seconds}
    \cup {JArr(<<>>), JNull, JNum(<<"0">>), JStr(Payload), JObj(<<>>, <<>>)}

\* Texts that are no JSON value, or a value in an unusual spelling.
ExemplarValue == JArr(<<JArr(<<Tag, JNull, JStr(Payload), JNull, JNull, JNull>>)>>)
SpacedText ==
    <<" ", "[", " ", "[", "1", ",", " ", "2", " ", ",", "\"", "s", "\"", " ", "]", "\t", "]", " ">>
SpacedValue == JArr(<<JArr(<<JNum(<<"1">>), JNum(<<"2">>), JStr(<<"s">>)>>)>>)
BrokenTexts ==
    {<<>>,
     <<"[", "[">>,
     <<"[", "[", "1", ",", "2", ",", "\"", "s", "\"", "]">>,
     <<"[", "[", "1", ",", "2", ",", "\"", "s", "\"", "]", "]", "x">>,
     <<"[", "[", "1", ",", "2", ",", "\"", "s", "]", "]">>,
     <<"[", "[", "0", "1", ",", "2", ",", "\"", "s", "\"", "]", "]">>,
     <<"[", "[", "1", ",", "2", ",", "]", "]">>,
     <<"[", "[", "1", ",", "2", ",", "\"", "\\", "q", "\"", "]", "]">>,
     <<"n", "u", "l">>}

\* A chunk: its text and, when the text is JSON, the value it spells.
Chunks ==
    {[valid |-> TRUE, v |-> v, text |-> Marshal(v)] : v \in ChunkValues}
    \cup {[valid |-> TRUE, v |-> SpacedValue, text |-> SpacedText]}
    \cup {[valid |-> FALSE, v |-> JNull, text |-> x] : x \in BrokenTexts}

LengthFields == {<<"3", "1">>, <<>>}
Tails == {<<>>, <<"\n">>, <<"\n", "2", "\n", "[", "]", "\n">>}

Frames ==
    [guard : BOOLEAN, newlines : 0..MaxNewlines, hasLength : BOOLEAN,
     length : LengthFields, chunk : Chunks, tail : Tails]

Newlines(n) == [i \in 1..n |-> "\n"]

\* The body a frame stands for.
Body(frame) ==
    (IF frame.guard THEN Guard ELSE <<>>)
    \o Newlines(frame.newlines)
    \o (IF frame.hasLength THEN frame.length \o <<"\n">> ELSE <<>>)
    \o frame.chunk.text
    \o frame.tail

\* The exemplar response )]}'\n31\n[["wrb.fr",null,"{\"a\":1}",null,null,null]]\n
ExemplarBody ==
    <<")", "]", "}", "'", "\n", "3", "1", "\n",
      "[", "[", "\"", "w", "r", "b", ".", "f", "r", "\"", ",", "n", "u", "l", "l", ",",
      "\"", "{", "\\", "\"", "a", "\\", "\"", ":", "1", "}", "\"", ",",
      "n", "u", "l", "l", ",", "n", "u", "l", "l", ",", "n", "u", "l", "l", "]", "]", "\n">>
ExemplarFrame ==
    [guard |-> TRUE, newlines |-> 1, hasLength |-> TRUE, length |-> <<"3", "1">>,
     chunk |-> [valid |-> TRUE, v |-> ExemplarValue, text |-> Marshal(ExemplarValue)],
     tail |-> <<"\n">>]

\* ------------------------------------------------------- requests, responses
\* The grpcendpoint clients calls are made on (handler.go:16-30).
GrpcClients == [authToken : {"token"}, cookies : CookieValues]

\* A request body with no JSON form.
Unserializable == [t |-> "chan", s |-> <<>>, a |-> <<>>, k |-> <<>>]

\* handler.go:33-36  the requests of the model.
Requests ==
    [Endpoint : {"/Service/Method"},
     Body : {JArr(<<JNull, JStr(<<"q">>)>>), Unserializable}]
NoRequest == [Endpoint |-> "", Body |-> JNull]

NoFrame ==
    [guard |-> FALSE, newlines |-> 0, hasLength |-> FALSE, length |-> <<>>,
     chunk |-> [valid |-> FALSE, v |-> JNull, text |-> <<>>], tail |-> <<>>]

\* A response: the request failed (neterr), the read of the body failed
\* (readerr), or a status and a body; frame is how the server built the body.
Response(status, frame) ==
    [neterr |-> FALSE, readerr |-> FALSE, status |-> status, body |-> Body(frame),
     frame |-> frame]
NetError ==
    [neterr |-> TRUE, readerr |-> FALSE, status |-> 0, body |-> <<>>, frame |-> NoFrame]
ReadError ==
    [neterr |-> FALSE, readerr |-> TRUE, status |-> 200, body |-> <<>>, frame |-> NoFrame]
NoResponse ==
    [neterr |-> FALSE, readerr |-> FALSE, status |-> 0, body |-> <<>>, frame |-> NoFrame]

Statuses == {200, 201, 500}

\* A body that is no framed response (an error page).
PlainFrame(text) ==
    [NoFrame EXCEPT !.chunk = [valid |-> FALSE, v |-> JNull, text |-> text]]

\* The responses to Execute and to Stream when the calls run concurrently.
ExecuteResponses ==
    {NetError, ReadError, Response(200, ExemplarFrame), Response(500, PlainFrame(<<"n", "o">>))}
StreamResponses ==
    {NetError, Response(200, PlainFrame(<<"a", "b", "c">>)), Response(500, PlainFrame(<<"n", "o">>))}

\* The responses to Execute and to Stream when one caller makes the calls.
ExecuteResponsesAll ==
    {NetError, ReadError}
    \cup {Response(st, f) : st \in Statuses, f \in {ExemplarFrame, PlainFrame(<<"n", "o">>)}}
StreamResponsesAll ==
    {NetError}
    \cup {Response(st, PlainFrame(b)) : st \in Statuses, b \in {<<>>, <<"a", "b", "c">>}}

\* Every framed body, with status 200.
FramedResponses == {Response(200, f) : f \in Frames}

\* The POST a call has sent (sent is FALSE before it has).
NoPost ==
    [sent |-> FALSE, url |-> <<>>,
     query |-> [bl |-> "", fsid |-> "", hl |-> "", reqid |-> 0, rt |-> ""],
     form |-> [freq |-> <<>>, at |-> ""], headers |-> [Cookie |-> ""]]

NoResult == [err |-> "none", data |-> <<>>, status |-> 0, body |-> <<>>, cause |-> ""]


VARIABLES
    cachedParams,    \* rpc.go:30  *APIParams, Nil or an index of heap
    paramsMutex,     \* rpc.go:31  0 when unlocked, else the thread holding it
    heap,            \* the APIParams objects allocated so far
    env,             \* the process environment: NLM_BUILD_VERSION, NLM_SESSION_ID
    requestCounter,  \* handler.go:236  var requestCounter int
    clients,         \* the rpc.Client objects built by New (their Config.URLParams)
    pc,              \* each thread's position
    loc,             \* each thread's local variables
    calls,           \* calls started so far
    gen,             \* history: the calls of ClearAPIParamsCache completed
    returned,        \* history: what GetAPIParams has returned, and in which gen
    issued           \* history: the request ids handed out, in order

vars ==
    <<cachedParams, paramsMutex, heap, env, requestCounter, clients, pc, loc, calls,
      gen, returned, issued>>

\* The locals of a call before it has a value for them.
NoMessage == [SourceIds |-> <<>>, Action |-> <<>>, Prompt |-> <<>>]
NoOutcome == [err |-> FALSE, blPrimary |-> "", sidPrimary |-> "", blAlt |-> "", sidAlt |-> ""]
NoURLParams == [bl |-> "", fsid |-> "", hl |-> "", sourcePath |-> <<>>]

Locals0 ==
    [op |-> "none", overlaps |-> FALSE,
     cookies |-> "", bl |-> "", sid |-> "", hit |-> FALSE,
     fetched |-> FALSE, outcome |-> NoOutcome, fellBack |-> FALSE, ret |-> Nil,
     client |-> 0, NotebookID |-> "", rpc |-> NoURLParams, cached |-> Nil,
     authToken |-> "", req |-> NoRequest, tmp |-> 0, rid |-> 0, resp |-> NoResponse,
     post |-> NoPost, rest |-> <<>>, delivered |-> <<>>, failedAt |-> 0,
     result |-> NoResult,
     message |-> NoMessage, args |-> JNull, again |-> JNull,
     prevCall |-> <<>>, readErr |-> ""]

Init ==
    /\ cachedParams = Nil
    /\ paramsMutex = 0
    /\ heap = <<>>
    /\ env \in [NLM_BUILD_VERSION : EnvBuildVersions, NLM_SESSION_ID : EnvSessionIDs]
    /\ requestCounter = 0
    /\ clients = <<>>
    /\ pc = [t \in Threads |-> "idle"]
    /\ loc = [t \in Threads |-> Locals0]
    /\ calls = 0
    /\ gen = 0
    /\ returned = {}
    /\ issued = <<>>

\* ------------------------------------------------------------ pure helpers

\* OverridePresent, were one value enough.
OverridePresentEither(bl, sid) == bl # "" \/ sid # ""

\* OverridePresent, were the build version enough.
OverridePresentBlOnly(bl, sid) == bl # ""

\* rpc.go:48  the override is taken only when both values are present.
OverridePresent(bl, sid) == bl # "" /\ sid # ""

\* ExtractParams, were the alternative pattern of a field preferred.
ExtractParamsAltFirst(page) ==
    [BuildVersion |-> IF page.blAlt # "" THEN page.blAlt ELSE page.blPrimary,
     SessionID |-> IF page.sidAlt # "" THEN page.sidAlt ELSE page.sidPrimary]

\* rpc.go:92-121  the two searches, each primary pattern first and the
\* alternative pattern only when the field is still empty.
ExtractParams(page) ==
    LET bl1 == IF page.blPrimary # "" THEN page.blPrimary ELSE ""
        sid1 == IF page.sidPrimary # "" THEN page.sidPrimary ELSE ""
        bl2 == IF bl1 = "" /\ page.blAlt # "" THEN page.blAlt ELSE bl1
        sid2 == IF sid1 = "" /\ page.sidAlt # "" THEN page.sidAlt ELSE sid1
    IN [BuildVersion |-> bl2, SessionID |-> sid2]

\* FillDefaults, were a missing value left blank.
FillDefaultsBlank(params) ==
    IF params.BuildVersion # "" \/ params.SessionID # ""
    THEN [isNil |-> FALSE, BuildVersion |-> params.BuildVersion,
          SessionID |-> params.SessionID]
    ELSE [isNil |-> TRUE, BuildVersion |-> "", SessionID |-> ""]

\* rpc.go:123-139  nil (here: isNil) unless at least one value was found;
\* a missing value is filled from its default.
FillDefaults(params) ==
    IF params.BuildVersion # "" \/ params.SessionID # ""
    THEN [isNil |-> FALSE,
          BuildVersion |-> IF params.BuildVersion = "" THEN DefaultBuildVersion
                           ELSE params.BuildVersion,
          SessionID |-> IF params.SessionID = "" THEN DefaultSessionID
                        ELSE params.SessionID]
    ELSE [isNil |-> TRUE, BuildVersion |-> "", SessionID |-> ""]

\* rpc.go:70-140  nil on an error of the request or of the read of the body.
fetchAPIParamsFromPage(outcome) ==
    IF outcome.err
    THEN [isNil |-> TRUE, BuildVersion |-> "", SessionID |-> ""]
    ELSE FillDefaults(ExtractParams(outcome))

\* Whether a fetch outcome left a field to be filled from a default constant.
UsesDefault(outcome) ==
    \/ outcome.err
    \/ ExtractParams(outcome).BuildVersion = ""
    \/ ExtractParams(outcome).SessionID = ""

\* Where a call goes on after GetAPIParams has returned to it.
AfterResolve(op) ==
    CASE op = "New" -> "new_config"
      [] op \in {"Execute", "Stream"} -> "rid_load"
      [] OTHER -> "idle"

\* ---------------------------------------------------------------- actions

\* An idle thread begins a call with fresh locals l; overlaps records that
\* another thread's call was running when this one began.
StartCall(t, l) ==
    /\ pc[t] = "idle"
    /\ calls' = calls + 1
    /\ loc' = [loc EXCEPT ![t] =
                   [l EXCEPT !.overlaps = \E u \in Threads : u # t /\ pc[u] # "idle"]]

\* A caller calls rpc.GetAPIParams(cookies) itself.
CallGetAPIParams(t) ==
    \E cookies \in CookieValues :
        /\ StartCall(t, [Locals0 EXCEPT !.op = "GetAPIParams", !.cookies = cookies])
        /\ pc' = [pc EXCEPT ![t] = "gp_lock"]
        /\ UNCHANGED <<cachedParams, paramsMutex, heap, env, requestCounter, clients, gen, returned, issued>>

\* rpc.go:255-257  New(authToken, cookies) begins with GetAPIParams(cookies).
CallNew(t) ==
    \E cookies \in CookieValues :
        /\ StartCall(t, [Locals0 EXCEPT !.op = "New", !.cookies = cookies])
        /\ pc' = [pc EXCEPT ![t] = "gp_lock"]
        /\ UNCHANGED <<cachedParams, paramsMutex, heap, env, requestCounter, clients, gen, returned, issued>>

\* Unlocked, were the mutex no mutex.
UnlockedAlways(mutex) == TRUE

\* Unlocked, were the mutex given up for the time of the fetch.
UnlockedWhileFetching(mutex) ==
    IF mutex = 0 THEN TRUE ELSE pc[mutex] = "gp_fetching"

\* sync.Mutex.Lock (rpc.go:36, 151) goes on only when no thread holds the mutex.
Unlocked(mutex) == mutex = 0

\* Unlock, were the mutex left with its holder.
UnlockSkipped(holder) == holder

\* rpc.go:37, 152  the deferred paramsMutex.Unlock(): the mutex has no holder.
Unlock(holder) == 0

\* rpc.go:36  paramsMutex.Lock()
GPLock(t) ==
    /\ pc[t] = "gp_lock"
    /\ Unlocked(paramsMutex)
    /\ paramsMutex' = t
    /\ pc' = [pc EXCEPT ![t] = "gp_cached"]
    /\ UNCHANGED <<cachedParams, heap, env, requestCounter, clients, loc, calls, gen, returned, issued>>

\* The return of GetAPIParams with pointer p: the deferred Unlock (rpc.go:37)
\* and the caller going on.
GPReturn(t, p, l) ==
    /\ paramsMutex' = Unlock(paramsMutex)
    /\ loc' = [loc EXCEPT ![t] = [l EXCEPT !.ret = p]]
    /\ pc' = [pc EXCEPT ![t] = AfterResolve(l.op)]
    /\ returned' = returned \cup {[gen |-> gen, ret |-> p, hit |-> l.hit,
                                    fetched |-> l.fetched, fellBack |-> l.fellBack,
                                    first |-> returned = {}]}

\* rpc.go:62-66 (and 49, 56)  a new APIParams is cached and returned.
GPStore(t, params, l) ==
    /\ heap' = Append(heap, params)
    /\ cachedParams' = Len(heap) + 1
    /\ GPReturn(t, Len(heap) + 1, l)

\* CacheHit, were the cache never consulted.
CacheHitNever(cached) == FALSE

\* CacheHit, were a cached pair of defaults not taken for a cached value.
CacheHitUnlessDefaults(cached) ==
    /\ cached # Nil
    /\ heap[cached] # [BuildVersion |-> DefaultBuildVersion, SessionID |-> DefaultSessionID]

\* rpc.go:40  if cachedParams != nil
CacheHit(cached) == cached # Nil

\* rpc.go:40-42  return the cached value when there is one.
GPCached(t) ==
    /\ pc[t] = "gp_cached"
    /\ IF CacheHit(cachedParams)
       THEN /\ GPReturn(t, cachedParams, [loc[t] EXCEPT !.hit = TRUE])
            /\ UNCHANGED <<cachedParams, heap>>
       ELSE /\ pc' = [pc EXCEPT ![t] = "gp_getenv_bl"]
            /\ UNCHANGED <<cachedParams, paramsMutex, heap, loc, returned>>
    /\ UNCHANGED <<env, requestCounter, clients, calls, gen, issued>>

\* rpc.go:45  bl := os.Getenv("NLM_BUILD_VERSION")
GPGetenvBl(t) ==
    /\ pc[t] = "gp_getenv_bl"
    /\ loc' = [loc EXCEPT ![t].bl = env.NLM_BUILD_VERSION]
    /\ pc' = [pc EXCEPT ![t] = "gp_getenv_sid"]
    /\ UNCHANGED <<cachedParams, paramsMutex, heap, env, requestCounter, clients, calls, gen, returned, issued>>

\* rpc.go:46  sid := os.Getenv("NLM_SESSION_ID")
GPGetenvSid(t) ==
    /\ pc[t] = "gp_getenv_sid"
    /\ loc' = [loc EXCEPT ![t].sid = env.NLM_SESSION_ID]
    /\ pc' = [pc EXCEPT ![t] = "gp_override"]
    /\ UNCHANGED <<cachedParams, paramsMutex, heap, env, requestCounter, clients, calls, gen, returned, issued>>

\* rpc.go:48-66  the override, else the GET of the page is sent when there
\* are cookies, else the defaults.
GPOverride(t) ==
    /\ pc[t] = "gp_override"
    /\ IF OverridePresent(loc[t].bl, loc[t].sid)
       THEN GPStore(t, [BuildVersion |-> loc[t].bl, SessionID |-> loc[t].sid], loc[t])
       ELSE IF loc[t].cookies # ""
       THEN /\ loc' = [loc EXCEPT ![t].fetched = TRUE]
            /\ pc' = [pc EXCEPT ![t] = "gp_fetching"]
            /\ UNCHANGED <<cachedParams, paramsMutex, heap, returned>>
       ELSE GPStore(t, [BuildVersion |-> DefaultBuildVersion,
                        SessionID |-> DefaultSessionID],
                    [loc[t] EXCEPT !.fellBack = TRUE])
    /\ UNCHANGED <<env, requestCounter, clients, calls, gen, issued>>

\* rpc.go:55-66  fetchAPIParamsFromPage returns: its result is cached, or the
\* defaults when it is nil.
GPFetchReturn(t, outcomes) ==
    /\ pc[t] = "gp_fetching"
    /\ \E outcome \in outcomes :
        LET params == fetchAPIParamsFromPage(outcome)
            l == [loc[t] EXCEPT !.outcome = outcome, !.fellBack = UsesDefault(outcome)]
        IN IF ~params.isNil
           THEN GPStore(t, [BuildVersion |-> params.BuildVersion,
                            SessionID |-> params.SessionID], l)
           ELSE GPStore(t, [BuildVersion |-> DefaultBuildVersion,
                            SessionID |-> DefaultSessionID], l)
    /\ UNCHANGED <<env, requestCounter, clients, calls, gen, issued>>

\* rpc.go:150-154  ClearAPIParamsCache
CallClear(t) ==
    /\ StartCall(t, [Locals0 EXCEPT !.op = "Clear"])
    /\ pc' = [pc EXCEPT ![t] = "cc_lock"]
    /\ UNCHANGED <<cachedParams, paramsMutex, heap, env, requestCounter, clients, gen, returned, issued>>

\* rpc.go:151  paramsMutex.Lock()
CCLock(t) ==
    /\ pc[t] = "cc_lock"
    /\ Unlocked(paramsMutex)
    /\ paramsMutex' = t
    /\ pc' = [pc EXCEPT ![t] = "cc_body"]
    /\ UNCHANGED <<cachedParams, heap, env, requestCounter, clients, loc, calls, gen, returned, issued>>

\* ClearedValue, were the cache left as it is.
ClearedValueKept(old) == old

\* rpc.go:153  what ClearAPIParamsCache leaves in cachedParams.
ClearedValue(old) == Nil

\* rpc.go:152-153  the deferred Unlock and cachedParams = nil
CCBody(t) ==
    /\ pc[t] = "cc_body"
    /\ cachedParams' = ClearedValue(cachedParams)
    /\ paramsMutex' = Unlock(paramsMutex)
    /\ pc' = [pc EXCEPT ![t] = "idle"]
    /\ gen' = gen + 1
    /\ UNCHANGED <<heap, env, requestCounter, clients, loc, calls, returned, issued>>

\* rpc.go:274-278  the URL parameters New puts into the client's Config.
NewURLParams(params) ==
    [bl |-> params.BuildVersion, fsid |-> params.SessionID, hl |-> "en"]

\* rpc.go:259-283  New builds the client from the params it was given.
NewConfig(t) ==
    /\ pc[t] = "new_config"
    /\ clients' = Append(clients, [URLParams |-> NewURLParams(heap[loc[t].ret])])
    /\ pc' = [pc EXCEPT ![t] = "idle"]
    /\ UNCHANGED <<cachedParams, paramsMutex, heap, env, requestCounter, loc, calls, gen, returned, issued>>

\* SourcePath, were the notebook path written for every call.
SourcePathAlwaysNotebook(notebookID) == <<"/notebook/", notebookID>>

\* rpc.go:302-306  the source-path of a call.
SourcePath(notebookID) ==
    IF notebookID # "" THEN <<"/notebook/", notebookID>> ELSE <<"/">>

\* rpc.go:296-313  the URL parameters of the RPC handed to batchexecute.
DoURLParams(c, notebookID) ==
    [bl |-> clients[c].URLParams.bl, fsid |-> clients[c].URLParams.fsid,
     hl |-> clients[c].URLParams.hl, sourcePath |-> SourcePath(notebookID)]

\* The call.NotebookID of the call of Do just before this one, if the call
\* before was one of Do.
PrevCall(l) == IF l.op = "Do" THEN <<l.NotebookID>> ELSE <<>>

\* rpc.go:287-331  Client.Do: the RPC is built and handed to the
\* batchexecute client. urlParams is a map made for the call (297-300), so
\* c.Config.URLParams stays as it was.
Do(t) ==
    \E c \in 1..Len(clients), nb \in NotebookIDs :
        /\ StartCall(t, [Locals0 EXCEPT !.op = "Do", !.client = c, !.NotebookID = nb,
                                        !.rpc = DoURLParams(c, nb),
                                        !.cached = cachedParams,
                                        !.prevCall = PrevCall(loc[t])])
        /\ UNCHANGED <<cachedParams, paramsMutex, heap, env, requestCounter, clients, pc,
                       gen, returned, issued>>

\* The host program changes one of the two override variables of the process
\* environment, which rpc.go:45-46 read.
Setenv ==
    /\ calls' = calls + 1
    /\ \E e \in [NLM_BUILD_VERSION : EnvBuildVersions, NLM_SESSION_ID : EnvSessionIDs] :
        /\ e # env
        /\ \/ e.NLM_BUILD_VERSION = env.NLM_BUILD_VERSION
           \/ e.NLM_SESSION_ID = env.NLM_SESSION_ID
        /\ env' = e
    /\ UNCHANGED <<cachedParams, paramsMutex, heap, requestCounter, clients, pc, loc, gen, returned, issued>>

\* ------------------------------------------------------------ the transport
\* grpcendpoint.Client.Execute and Stream, and generateRequestID.

\* NextCounter, were the increment by two.
NextCounterTwice(loaded) == loaded + 2

\* handler.go:239  requestCounter++ stores the loaded value plus one.
NextCounter(loaded) == loaded + 1

\* handler.go:240  the id returned for a value of the counter.
RequestID(counter) == RequestIDBase + counter

\* handler.go:40  the base of every URL.
BaseURL == "https://notebooklm.google.com/_/LabsTailwindUi/data"

\* handler.go:76-82  the headers Execute sets.
ExecuteHeaders(cookies) ==
    [ContentType |-> "application/x-www-form-urlencoded;charset=UTF-8",
     Cookie |-> cookies,
     Origin |-> "https://notebooklm.google.com",
     Referer |-> "https://notebooklm.google.com/",
     XSameDomain |-> "1",
     Accept |-> "*/*",
     AcceptLanguage |-> "en-US,en;q=0.9"]

\* handler.go:197-201  the headers Stream sets.
StreamHeaders(cookies) ==
    [ContentType |-> "application/x-www-form-urlencoded;charset=UTF-8",
     Cookie |-> cookies,
     Origin |-> "https://notebooklm.google.com",
     Referer |-> "https://notebooklm.google.com/",
     XSameDomain |-> "1"]

\* handler.go:49-54, 170-175  the query parameters of both variants.
QueryParams(apiParams, rid) ==
    [bl |-> apiParams.BuildVersion, fsid |-> apiParams.SessionID, hl |-> "en",
     reqid |-> rid, rt |-> "c"]

\* handler.go:59-67, 180-188  the form fields of both variants.
FormData(l) == [freq |-> Marshal(l.req.Body), at |-> l.authToken]

\* json.Marshal fails on a value that has no JSON form (a channel, a func).
MarshalOK(body) == body.t # "chan"

\* handler.go:110, 210  the one status that is not an error.
StatusOK(status) == status = 200

\* The error of a response whose status is not 200: status and body.
StatusFailure(status, body) ==
    [err |-> "request failed with status", data |-> <<>>, status |-> status, body |-> body,
     cause |-> ""]

\* handler.go:39-56, 162-177  a call of Execute or Stream on a client begins
\* with GetAPIParams(c.cookies).
CallTransport(t, op) ==
    \E c \in GrpcClients, req \in Requests :
        /\ StartCall(t, [Locals0 EXCEPT !.op = op, !.cookies = c.cookies,
                                        !.authToken = c.authToken, !.req = req])
        /\ pc' = [pc EXCEPT ![t] = "gp_lock"]
        /\ UNCHANGED <<cachedParams, paramsMutex, heap, env, requestCounter, clients, gen, returned, issued>>

CallExecute(t) == CallTransport(t, "Execute")

CallStream(t) == CallTransport(t, "Stream")

\* handler.go:239  the load of requestCounter++
RidLoad(t) ==
    /\ pc[t] = "rid_load"
    /\ loc' = [loc EXCEPT ![t].tmp = requestCounter]
    /\ pc' = [pc EXCEPT ![t] = "rid_store"]
    /\ UNCHANGED <<cachedParams, paramsMutex, heap, env, requestCounter, clients, calls, gen, returned, issued>>

\* handler.go:239  the store of requestCounter++
RidStore(t) ==
    /\ pc[t] = "rid_store"
    /\ requestCounter' = NextCounter(loc[t].tmp)
    /\ pc' = [pc EXCEPT ![t] = "rid_return"]
    /\ UNCHANGED <<cachedParams, paramsMutex, heap, env, clients, loc, calls, gen, returned, issued>>

\* handler.go:240  return 1000000 + requestCounter: the counter is not
\* synchronised, so the value used is the one this call stored (kept in a
\* register) or the one in memory now.
RidReturn(t) ==
    /\ pc[t] = "rid_return"
    /\ \E counter \in {NextCounter(loc[t].tmp), requestCounter} :
        /\ loc' = [loc EXCEPT ![t].rid = RequestID(counter)]
        /\ issued' = Append(issued, RequestID(counter))
    /\ pc' = [pc EXCEPT ![t] = "tx_send"]
    /\ UNCHANGED <<cachedParams, paramsMutex, heap, env, requestCounter, clients, calls,
                   gen, returned>>

\* What is left of a call when it has returned: its frame is gone, the caller
\* holds the result, the handler has seen what was delivered to it, and the
\* body of the response is left where the last Read (with its error) left it.
Returned(l, result) ==
    [Locals0 EXCEPT !.op = l.op, !.resp = l.resp, !.delivered = l.delivered,
                    !.failedAt = l.failedAt, !.result = result,
                    !.rest = l.rest, !.readErr = l.readErr]

\* The return of Execute or Stream to its caller.
Finish(t, result) ==
    /\ loc' = [loc EXCEPT ![t] = Returned(loc[t], result)]
    /\ pc' = [pc EXCEPT ![t] = "idle"]

\* The POST of a call, as it leaves.
PostOf(l) ==
    [sent |-> TRUE,
     url |-> <<BaseURL, l.req.Endpoint>>,
     query |-> QueryParams(heap[l.ret], l.rid),
     form |-> FormData(l),
     headers |-> IF l.op = "Execute" THEN ExecuteHeaders(l.cookies)
                 ELSE StreamHeaders(l.cookies)]

\* handler.go:59-92, 180-204  the body is encoded and the POST is sent; the
\* server's answer (one of responses) is then on its way.
TxSend(t, responses) ==
    /\ pc[t] = "tx_send"
    /\ IF ~MarshalOK(loc[t].req.Body)
       THEN Finish(t, Failure("failed to encode request body"))
       ELSE \E r \in responses :
            /\ loc' = [loc EXCEPT ![t].resp = r, ![t].post = PostOf(loc[t])]
            /\ pc' = [pc EXCEPT ![t] = IF loc[t].op = "Execute" THEN "ex_wait"
                                       ELSE "st_wait"]
    /\ UNCHANGED <<cachedParams, paramsMutex, heap, env, requestCounter, clients, calls,
                   gen, returned, issued>>

\* handler.go:92-151  what Execute returns for a response.
ExecuteResult(r) ==
    IF r.neterr THEN Failure("failed to send request")
    ELSE IF r.readerr THEN Failure("failed to read response")
    ELSE IF ~StatusOK(r.status) THEN StatusFailure(r.status, r.body)
    ELSE Unframe(r.body)

\* handler.go:92-151  Execute receives the response and returns.
ExRecv(t) ==
    /\ pc[t] = "ex_wait"
    /\ Finish(t, ExecuteResult(loc[t].resp))
    /\ UNCHANGED <<cachedParams, paramsMutex, heap, env, requestCounter, clients, calls,
                   gen, returned, issued>>

\* handler.go:204-213  Stream receives the status line.
StRecv(t) ==
    /\ pc[t] = "st_wait"
    /\ IF loc[t].resp.neterr
       THEN Finish(t, Failure("failed to send request"))
       ELSE IF ~StatusOK(loc[t].resp.status)
       THEN Finish(t, StatusFailure(loc[t].resp.status, loc[t].resp.body))
       ELSE /\ loc' = [loc EXCEPT ![t].rest = loc[t].resp.body]
            /\ pc' = [pc EXCEPT ![t] = "st_read"]
    /\ UNCHANGED <<cachedParams, paramsMutex, heap, env, requestCounter, clients, calls,
                   gen, returned, issued>>

Min(a, b) == IF a < b THEN a ELSE b

\* The error a chunk handler returns when it fails.
HandlerFailed == "handler failed"

\* handler.go:221  fmt.Errorf("handler error: %w", err): the handler's error
\* is the cause of the error returned.
HandlerError(cause) ==
    [err |-> "handler error", data |-> <<>>, status |-> 0, body |-> <<>>, cause |-> cause]

\* ReadOutcome, were the handler's error looked at only when the read has
\* ended.
ReadOutcomeHandlerLast(n, e, handlerFails) ==
    IF e = "EOF" THEN (IF n > 0 /\ handlerFails THEN "handler error" ELSE "eof")
    ELSE IF e = "error" THEN "read error"
    ELSE "continue"

\* ReadOutcome, were every error of Read a read error, io.EOF too.
ReadOutcomeEOFIsError(n, e, handlerFails) ==
    IF n > 0 /\ handlerFails THEN "handler error"
    ELSE IF e # "nil" THEN "read error"
    ELSE "continue"

\* handler.go:219-230  what one turn of the read loop does with the n bytes
\* and the error of its Read: the handler is called first, when n > 0.
ReadOutcome(n, e, handlerFails) ==
    IF n > 0 /\ handlerFails THEN "handler error"
    ELSE IF e = "EOF" THEN "eof"
    ELSE IF e = "error" THEN "read error"
    ELSE "continue"

\* handler.go:217-230  one turn of the read loop: Read returns n bytes and
\* an error (nil, io.EOF at the end of the body, or another error); the
\* handler is called with the bytes when n > 0 and may fail. failedAt is the
\* invocation at which the handler failed.
StRead(t) ==
    /\ pc[t] = "st_read"
    /\ \E n \in 0..Min(MaxRead, Len(loc[t].rest)),
          e \in {"nil", "EOF", "error"},
          handlerFails \in BOOLEAN :
        /\ e = "EOF" => n = Len(loc[t].rest)
        /\ e = "nil" => n > 0
        /\ handlerFails => n > 0
        /\ LET l == [loc[t] EXCEPT
                        !.rest = SubSeq(loc[t].rest, n + 1, Len(loc[t].rest)),
                        !.delivered = IF n > 0
                                      THEN Append(loc[t].delivered, SubSeq(loc[t].rest, 1, n))
                                      ELSE loc[t].delivered,
                        !.failedAt = IF handlerFails /\ loc[t].failedAt = 0
                                     THEN Len(loc[t].delivered) + 1
                                     ELSE loc[t].failedAt,
                        !.readErr = e]
               outcome == ReadOutcome(n, e, handlerFails)
               done(result) ==
                   /\ loc' = [loc EXCEPT ![t] = Returned(l, result)]
                   /\ pc' = [pc EXCEPT ![t] = "idle"]
           IN CASE outcome = "handler error" -> done(HandlerError(HandlerFailed))
                [] outcome = "eof" -> done(Success(<<>>))
                [] outcome = "read error" -> done(Failure("read error"))
                [] OTHER -> /\ loc' = [loc EXCEPT ![t] = l]
                            /\ UNCHANGED pc
    /\ UNCHANGED <<cachedParams, paramsMutex, heap, env, requestCounter, clients, calls, gen, returned, issued>>

\* The steps of GetAPIParams, whoever called it; outcomes are the outcomes
\* the GET of the page may have.
GetAPIParamsStep(t, outcomes) ==
    \/ GPLock(t)
    \/ GPCached(t)
    \/ GPGetenvBl(t)
    \/ GPGetenvSid(t)
    \/ GPOverride(t)
    \/ GPFetchReturn(t, outcomes)

\* The steps of ClearAPIParamsCache.
ClearStep(t) ==
    \/ CCLock(t)
    \/ CCBody(t)

\* The scenarios are bounded by the number of calls made (a change of the
\* environment counts as one).
Budget(n) == calls < n

\* The session context resolver under concurrent callers.
Next ==
    \/ \E t \in Threads :
        \/ Budget(MaxCalls) /\ CallGetAPIParams(t)
        \/ Budget(MaxCalls) /\ CallClear(t)
        \/ GetAPIParamsStep(t, FetchOutcomes)
        \/ ClearStep(t)
    \/ Budget(MaxCalls) /\ Setenv

Spec == Init /\ [][Next]_vars

\* The dispatcher: one caller building clients, calling through them and
\* refreshing the session context.
NextDispatch ==
    \/ Budget(MaxDispatchCalls) /\ CallNew(1)
    \/ NewConfig(1)
    \/ Budget(MaxDispatchCalls) /\ Do(1)
    \/ Budget(MaxDispatchCalls) /\ CallGetAPIParams(1)
    \/ Budget(MaxDispatchCalls) /\ CallClear(1)
    \/ GetAPIParamsStep(1, FetchOutcomes)
    \/ ClearStep(1)
    \/ Budget(MaxDispatchCalls) /\ Setenv

SpecDispatch == Init /\ [][NextDispatch]_vars

\* The steps of Execute and Stream after the call has begun.
TransportStep(t) ==
    \/ GetAPIParamsStep(t, TransportFetchOutcomes)
    \/ RidLoad(t)
    \/ RidStore(t)
    \/ RidReturn(t)
    \/ TxSend(t, IF loc[t].op = "Execute" THEN ExecuteResponses ELSE StreamResponses)
    \/ ExRecv(t)
    \/ StRecv(t)
    \/ StRead(t)

\* A thread that has made no call yet.
Fresh(t) == pc[t] = "idle" /\ loc[t].op = "none"

\* Both transport variants under concurrent callers: each thread makes one
\* call, at any time.
NextTransport ==
    \E t \in Threads :
        \/ Fresh(t) /\ CallExecute(t)
        \/ Fresh(t) /\ CallStream(t)
        \/ TransportStep(t)

SpecTransport == Init /\ [][NextTransport]_vars

\* The steps of Execute and Stream of the one caller, with every response.
SequentialStep(t) ==
    \/ GetAPIParamsStep(t, TransportFetchOutcomes)
    \/ RidLoad(t)
    \/ RidStore(t)
    \/ RidReturn(t)
    \/ TxSend(t, IF loc[t].op = "Execute" THEN ExecuteResponsesAll ELSE StreamResponsesAll)
    \/ ExRecv(t)
    \/ StRecv(t)
    \/ StRead(t)

\* The transport with its calls made one after another by one caller.
NextSequential ==
    \/ Budget(MaxCalls) /\ CallExecute(1)
    \/ Budget(MaxCalls) /\ CallStream(1)
    \/ SequentialStep(1)

SpecSequential == Init /\ [][NextSequential]_vars

\* The steps of a call that need no mutex to be free: each goes on as soon as
\* the thread is scheduled, or the HTTP exchange or the Read it waits for
\* has returned.
RunStep(t) ==
    \/ GPCached(t)
    \/ GPGetenvBl(t)
    \/ GPGetenvSid(t)
    \/ GPOverride(t)
    \/ GPFetchReturn(t, TransportFetchOutcomes)
    \/ CCBody(t)
    \/ RidLoad(t)
    \/ RidStore(t)
    \/ RidReturn(t)
    \/ TxSend(t, StreamResponses)
    \/ StRecv(t)
    \/ StRead(t)

\* Resolve and invalidate under concurrent callers, one of which also calls
\* Stream.
NextLive ==
    \/ Budget(MaxLiveCalls) /\ CallStream(1)
    \/ \E t \in Threads :
        \/ Budget(MaxLiveCalls) /\ CallGetAPIParams(t)
        \/ Budget(MaxLiveCalls) /\ CallClear(t)
        \/ GPLock(t)
        \/ CCLock(t)
        \/ RunStep(t)

\* Every thread is scheduled again and again, every HTTP exchange and every
\* Read returns, and a thread that waits in sync.Mutex.Lock gets the mutex
\* when it is free again and again (a waiter of more than 1 ms is handed the
\* mutex by the next Unlock).
Fairness ==
    \A t \in Threads :
        /\ WF_vars(RunStep(t))
        /\ SF_vars(GPLock(t))
        /\ SF_vars(CCLock(t))

SpecLive == Init /\ [][NextLive]_vars /\ Fairness

\* The framing part of Execute on every framed body: thread 1 has sent its
\* POST (no cookies, no override, so the defaults) and the response is on its
\* way.
PostOfFramer ==
    PostOf([Locals0 EXCEPT !.op = "Execute", !.authToken = "token",
                           !.req = [Endpoint |-> "/Service/Method",
                                    Body |-> JArr(<<JNull, JStr(<<"q">>)>>)],
                           !.rid = RequestID(1), !.ret = 1])

FramerLocals(r) ==
    [Locals0 EXCEPT !.op = "Execute", !.fellBack = TRUE, !.ret = 1,
                    !.authToken = "token",
                    !.req = [Endpoint |-> "/Service/Method",
                             Body |-> JArr(<<JNull, JStr(<<"q">>)>>)],
                    !.rid = RequestID(1), !.resp = r,
                    !.post = PostOfFramer]

InitFramer ==
    /\ cachedParams = 1
    /\ paramsMutex = 0
    /\ heap = <<[BuildVersion |-> DefaultBuildVersion, SessionID |-> DefaultSessionID]>>
    /\ env = [NLM_BUILD_VERSION |-> "", NLM_SESSION_ID |-> ""]
    /\ requestCounter = 1
    /\ clients = <<>>
    /\ pc = [t \in Threads |-> IF t = 1 THEN "ex_wait" ELSE "idle"]
    /\ \E r \in FramedResponses :
        loc = [t \in Threads |-> IF t = 1 THEN FramerLocals(r) ELSE Locals0]
    /\ calls = 1
    /\ gen = 0
    /\ returned = {[gen |-> 0, ret |-> 1, hit |-> FALSE, fetched |-> FALSE,
                    fellBack |-> TRUE, first |-> TRUE]}
    /\ issued = <<RequestID(1)>>

SpecFramer == InitFramer /\ [][ExRecv(1)]_vars

\* ------------------------------------------------------------------ claims

\* What a caller that has GetAPIParams's result holds: thread t has returned
\* from a resolve (its own call, or the one inside New).
Resolved(t) == loc[t].ret # Nil

\* C1: between two invalidations every resolve returns the instance the first
\* one cached, whatever its cookies and whatever the override variables have
\* become, and the cache still holds that instance: all values returned in
\* one generation are one pointer, the cache holds it as long as the
\* generation lasts, and a call that found the cache filled neither fetched
\* nor filled anything from the defaults.
C1_CacheIdempotent ==
    /\ \A r1, r2 \in returned : r1.gen = r2.gen => r1.ret = r2.ret
    /\ \A r \in returned : r.gen = gen => cachedParams = r.ret
    /\ \A r \in returned : r.hit => ~r.fetched /\ ~r.fellBack
    /\ \A r1, r2 \in returned : r1.gen = r2.gen /\ ~r1.hit /\ ~r2.hit => r1 = r2

\* A second resolve has hit the cache although the override variables are now
\* both set to something else than the cached values.
C1_Witness ==
    \E t \in Threads :
        /\ pc[t] = "idle" /\ Resolved(t) /\ loc[t].hit
        /\ loc[t].ret = cachedParams
        /\ env.NLM_BUILD_VERSION # "" /\ env.NLM_SESSION_ID # ""
        /\ heap[loc[t].ret].BuildVersion # env.NLM_BUILD_VERSION
        /\ \E r \in returned : r.gen = gen /\ ~r.hit

\* C2: when ClearAPIParamsCache has completed the cache is empty until a
\* resolve fills it again, and that resolve runs the chain anew: a filled
\* cache was filled by a resolve of the current generation, every generation
\* that returned anything has a resolve that missed the cache, and no
\* generation returns the instance of an earlier one.
C2_InvalidateReruns ==
    /\ cachedParams # Nil =>
           \E r \in returned : r.gen = gen /\ r.ret = cachedParams
    /\ \A r \in returned : \E m \in returned : m.gen = r.gen /\ ~m.hit /\ m.ret = r.ret
    /\ \A r1, r2 \in returned : r1.gen # r2.gen => r1.ret # r2.ret

\* After an invalidation a resolve has fetched and cached values that differ
\* from those of the generation before.
C2_Witness ==
    \E r1, r2 \in returned :
        /\ r1.gen < r2.gen
        /\ r2.fetched /\ ~r2.hit
        /\ heap[r1.ret] # heap[r2.ret]
        /\ cachedParams = r2.ret

\* C3: a fetch is under way or was made only by a call that found the cache
\* empty, did not read both override values and has cookies; a call that read
\* both override values returns exactly that pair without a fetch; a call
\* with no cookies and not both override values returns the two defaults
\* without a fetch.
C3_FetchOnlyWhenNeeded ==
    \A t \in Threads :
        LET l == loc[t]
            both == l.bl # "" /\ l.sid # ""
        IN /\ pc[t] = "gp_fetching" =>
                  cachedParams = Nil /\ ~both /\ l.cookies # "" /\ ~l.hit
           /\ l.fetched => ~l.hit /\ ~both /\ l.cookies # ""
           /\ Resolved(t) /\ ~l.hit /\ both =>
                  /\ ~l.fetched
                  /\ heap[l.ret] = [BuildVersion |-> l.bl, SessionID |-> l.sid]
           /\ Resolved(t) /\ ~l.hit /\ ~both /\ l.cookies = "" =>
                  /\ ~l.fetched
                  /\ heap[l.ret] = [BuildVersion |-> "boq_labs-tailwind-frontend_20251120.08_p0",
                                    SessionID |-> "-8913782897795119716"]

\* A call with cookies that read both override values has returned exactly
\* that pair and has not fetched.
C3_Witness ==
    \E t \in Threads :
        /\ pc[t] = "idle" /\ Resolved(t) /\ ~loc[t].hit /\ ~loc[t].fetched
        /\ loc[t].cookies # "" /\ loc[t].bl # "" /\ loc[t].sid # ""
        /\ heap[loc[t].ret] = [BuildVersion |-> loc[t].bl, SessionID |-> loc[t].sid]

\* C4: the cached session context is absent or has both fields non-empty,
\* every value resolve has returned has both fields non-empty, and a fetch
\* that found one of the two values returns that value with the default of
\* the other.
C4_NeverEmptyFields ==
    /\ cachedParams # Nil =>
           heap[cachedParams].BuildVersion # "" /\ heap[cachedParams].SessionID # ""
    /\ \A r \in returned :
           heap[r.ret].BuildVersion # "" /\ heap[r.ret].SessionID # ""
    /\ \A t \in Threads :
           LET o == loc[t].outcome
               blFound == o.blPrimary # "" \/ o.blAlt # ""
               sidFound == o.sidPrimary # "" \/ o.sidAlt # ""
           IN Resolved(t) /\ loc[t].fetched /\ ~o.err =>
                  /\ blFound /\ ~sidFound =>
                         /\ heap[loc[t].ret].BuildVersion \in {o.blPrimary, o.blAlt} \ {""}
                         /\ heap[loc[t].ret].SessionID = "-8913782897795119716"
                  /\ sidFound /\ ~blFound =>
                         /\ heap[loc[t].ret].SessionID \in {o.sidPrimary, o.sidAlt} \ {""}
                         /\ heap[loc[t].ret].BuildVersion =
                                "boq_labs-tailwind-frontend_20251120.08_p0"

\* A fetch that matched the session id only (by the alternative pattern) has
\* returned, and its result is cached.
C4_Witness ==
    \E t \in Threads :
        /\ Resolved(t) /\ loc[t].fetched /\ ~loc[t].outcome.err
        /\ loc[t].outcome.blPrimary = "" /\ loc[t].outcome.blAlt = ""
        /\ loc[t].outcome.sidPrimary = "" /\ loc[t].outcome.sidAlt # ""
        /\ cachedParams = loc[t].ret

\* The calls of the current generation that fetched and have returned.
FetchesReturned(g) == {r \in returned : r.gen = g /\ r.fetched}
\* The threads whose fetch is in flight.
Fetching == {t \in Threads : pc[t] = "gp_fetching"}

\* C5: of the threads that resolve concurrently on an empty cache at most one
\* fetches, at most one fetch is in flight at any time, and all of them
\* return the same instance.
C5_OneFetch ==
    /\ Cardinality(Fetching) <= 1
    /\ \A g \in 0..gen :
           Cardinality(FetchesReturned(g)) + (IF g = gen THEN Cardinality(Fetching) ELSE 0) <= 1
    /\ \A t, u \in Threads :
           (/\ Resolved(t) /\ Resolved(u)
            /\ \E r \in returned : r.gen = gen /\ r.ret = loc[t].ret
            /\ \E r \in returned : r.gen = gen /\ r.ret = loc[u].ret)
           => loc[t].ret = loc[u].ret

\* Two threads called resolve with cookies on the empty cache, the second
\* while the first was running; the first has fetched and returned, the
\* second has returned the same instance without a fetch.
C5_Witness ==
    \E t, u \in Threads :
        /\ t # u /\ gen = 0
        /\ Resolved(t) /\ loc[t].fetched /\ ~loc[t].overlaps
        /\ Resolved(u) /\ loc[u].overlaps /\ loc[u].hit /\ loc[u].cookies # ""
        /\ loc[u].ret = loc[t].ret

\* C9: once a first resolve has completed, no later resolve, one after an
\* invalidation included, returns a session context filled from the default
\* constants.
C9_NoLaterFallback ==
    \A r \in returned : r.fellBack => r.first

\* The request ids handed out so far are pairwise distinct.
DistinctIDs == \A i, j \in 1..Len(issued) : i # j => issued[i] # issued[j]
\* No thread is inside generateRequestID.
NoneGenerating == \A t \in Threads : pc[t] \notin {"rid_store", "rid_return"}

\* C6: under any interleaving of concurrent Execute and Stream calls no two
\* calls obtain the same request id, and when n calls have taken an id the
\* counter has advanced by exactly n.
C6_AtomicCounter ==
    /\ DistinctIDs
    /\ NoneGenerating => requestCounter = Len(issued)

\* C7: when the calls are made one after another, the k-th call of the
\* transport, Execute or Stream, takes the id 1,000,000 + k and sends it as
\* _reqid, and the counter has been incremented once per call.
C7_SequentialIDs ==
    /\ \A k \in 1..Len(issued) : issued[k] = 1000000 + k
    /\ pc[1] \notin {"rid_store", "rid_return"} => requestCounter = Len(issued)
    /\ pc[1] \in {"tx_send", "ex_wait", "st_wait", "st_read"} =>
           loc[1].rid = 1000000 + calls
    /\ loc[1].post.sent => loc[1].post.query.reqid = 1000000 + calls

\* The second call, a Stream after an Execute or the reverse, has sent its
\* POST with _reqid = 1,000,002.
C7_Witness ==
    /\ calls = 2
    /\ issued = <<1000001, 1000002>>
    /\ pc[1] \in {"ex_wait", "st_wait"}
    /\ loc[1].post.sent /\ loc[1].post.query.reqid = 1000002

\* C8: each call of rpc.Client.Do hands on the bl and f.sid of the session
\* context that resolve yields at the time of the call, which is the cached
\* one when there is one.
C8_DoUsesCurrentContext ==
    \A t \in Threads :
        loc[t].op = "Do" /\ loc[t].cached # Nil =>
            /\ loc[t].rpc.bl = heap[loc[t].cached].BuildVersion
            /\ loc[t].rpc.fsid = heap[loc[t].cached].SessionID

\* The envelope of a frame's chunk, when the chunk is one: an array whose
\* elements are arrays (or null), the first of them with three positions or
\* more.
EnvelopeWithThird(chunk) ==
    /\ chunk.valid
    /\ chunk.v.t = "arr" /\ Len(chunk.v.a) >= 1
    /\ \A n \in 1..Len(chunk.v.a) : chunk.v.a[n].t \in {"arr", "null"}
    /\ chunk.v.a[1].t = "arr" /\ Len(chunk.v.a[1].a) >= 3

\* The bodies that are chunk-framed: a decimal length on a line of its own
\* before the chunk, and after the guard, if there is one, any newlines.
ChunkFramed(frame) ==
    (frame.guard \/ frame.newlines = 0) /\ frame.hasLength /\ frame.length # <<>>

\* C10: for a body whose first chunk is an envelope with a first outer
\* element of three positions or more, Execute returns the characters of the
\* string at index 2 of that element as the payload, and when that position
\* holds no string it returns the type error and no payload.
C10_PayloadIsThird ==
    LET frame == loc[1].resp.frame
        third == frame.chunk.v.a[1].a[3]
    IN pc[1] = "idle" /\ ChunkFramed(frame) /\ EnvelopeWithThird(frame.chunk) =>
           IF third.t = "str"
           THEN loc[1].result.err = "" /\ loc[1].result.data = third.s
           ELSE /\ loc[1].result.err = "invalid response data type"
                /\ loc[1].result.data = <<>>

\* Execute has returned the payload {"a":1} for the exemplar body.
C10_Witness ==
    /\ pc[1] = "idle"
    /\ loc[1].resp.body = ExemplarBody
    /\ loc[1].result.err = ""
    /\ loc[1].result.data = <<"{", "\"", "a", "\"", ":", "1", "}">>

\* Execute has returned the type error for a body whose first outer element
\* holds an object at index 2.
C10_WitnessTypeError ==
    /\ pc[1] = "idle"
    /\ ChunkFramed(loc[1].resp.frame) /\ EnvelopeWithThird(loc[1].resp.frame.chunk)
    /\ loc[1].resp.frame.chunk.v.a[1].a[3].t = "obj"
    /\ loc[1].result.err = "invalid response data type"

\* The envelope of a frame's chunk, when the chunk is one with no outer
\* element (null included) or with a first outer element of fewer than three
\* positions (null included).
EnvelopeTooShort(chunk) ==
    /\ chunk.valid
    /\ \/ chunk.v.t = "null"
       \/ /\ chunk.v.t = "arr"
          /\ \A n \in 1..Len(chunk.v.a) : chunk.v.a[n].t \in {"arr", "null"}
          /\ Len(chunk.v.a) = 0 \/ Len(chunk.v.a[1].a) < 3

\* C11: for a body whose envelope has no outer element, or whose first outer
\* element has fewer than three positions, Execute returns the shape error
\* and no payload.
C11_ShortEnvelopeIsShapeError ==
    LET frame == loc[1].resp.frame
    IN pc[1] = "idle" /\ ChunkFramed(frame) /\ EnvelopeTooShort(frame.chunk) =>
           /\ loc[1].result.err = "invalid response format"
           /\ loc[1].result.data = <<>>

\* Execute has returned the shape error for a body whose first outer element
\* has two positions.
C11_Witness ==
    LET frame == loc[1].resp.frame
    IN /\ pc[1] = "idle" /\ ChunkFramed(frame) /\ EnvelopeTooShort(frame.chunk)
       /\ frame.chunk.v.t = "arr" /\ Len(frame.chunk.v.a) >= 1
       /\ Len(frame.chunk.v.a[1].a) = 2
       /\ loc[1].result.err = "invalid response format"

\* Thread t has returned from Execute or Stream after the server's response
\* arrived with a status.
AnsweredWithStatus(t) ==
    /\ pc[t] = "idle" /\ loc[t].op \in {"Execute", "Stream"}
    /\ loc[t].result.err \notin {"none", "failed to encode request body"}
    /\ ~loc[t].resp.neterr /\ ~loc[t].resp.readerr

\* C12: for Execute and for Stream, a response whose status is not 2xx gives
\* an error that carries the status and the body, no payload and no
\* invocation of the chunk handler; a response with any 2xx status is not a
\* status error, and Execute returns the payload of the exemplar body.
C12_StatusHandling ==
    \A t \in Threads :
        AnsweredWithStatus(t) =>
            IF loc[t].resp.status \in 200..299
            THEN /\ loc[t].result.err # "request failed with status"
                 /\ loc[t].op = "Execute" /\ loc[t].resp.body = ExemplarBody =>
                        loc[t].result.data = <<"{", "\"", "a", "\"", ":", "1", "}">>
            ELSE /\ loc[t].result.err = "request failed with status"
                 /\ loc[t].result.status = loc[t].resp.status
                 /\ loc[t].result.body = loc[t].resp.body
                 /\ loc[t].result.data = <<>>
                 /\ loc[t].delivered = <<>>

\* C13: as soon as the chunk handler fails, at whichever invocation, the read
\* loop of Stream is over: Stream has returned the handler's error wrapped,
\* with the handler's own error as its cause, and the failed invocation is
\* the last one the handler has seen.
C13_HandlerErrorStops ==
    \A t \in Threads :
        /\ loc[t].failedAt # 0 =>
               /\ pc[t] = "idle"
               /\ loc[t].result.err = "handler error"
               /\ loc[t].result.cause = "handler failed"
               /\ Len(loc[t].delivered) = loc[t].failedAt
        /\ loc[t].result.err = "handler error" => loc[t].failedAt # 0

\* The handler failed at its second invocation, with bytes of the body still
\* unread, and Stream has returned the handler's error.
C13_Witness ==
    /\ pc[1] = "idle" /\ loc[1].op = "Stream"
    /\ loc[1].failedAt = 2
    /\ loc[1].delivered = <<<<"a">>, <<"b">>>>
    /\ loc[1].resp.body = <<"a", "b", "c">>
    /\ loc[1].result.err = "handler error"

\* The handler failed at its first invocation and Stream has returned the
\* handler's error.
C13_WitnessFirst ==
    /\ pc[1] = "idle" /\ loc[1].op = "Stream"
    /\ loc[1].failedAt = 1 /\ Len(loc[1].delivered) = 1
    /\ loc[1].result.err = "handler error"

\* The texts an error of Execute or Stream is made of, besides the status and
\* the body the server sent.
ErrorTexts(result) == {result.err, result.cause}

\* The errors whose whole text is made in handler.go (the text of an error of
\* net/http is not modelled).
MadeHere(result) ==
    result.err \in {"failed to encode request body", "request failed with status",
                    "parse outer response", "invalid response format",
                    "invalid response data type", "handler error"}

\* C14: every error Execute and Stream return, an encode error, an HTTP
\* status error, a framing error, a payload type error or a handler error,
\* carries the identifier of the operation (the endpoint of the request).
C14_ErrorsNameOperation ==
    \A t \in Threads :
        pc[t] = "idle" /\ loc[t].op \in {"Execute", "Stream"} /\ MadeHere(loc[t].result) =>
            \E r \in Requests : r.Endpoint \in ErrorTexts(loc[t].result)

\* The headers every POST must carry.
RequiredHeaders == {"Cookie", "Origin", "Referer", "XSameDomain", "Accept", "AcceptLanguage"}

\* C15: every POST of Execute and every POST of Stream carries the six
\* required headers, the query parameters bl, f.sid, hl=en, _reqid, rt=c of
\* the session context and the form fields f.req and at of the request.
C15_SameRequestBothVariants ==
    \A t \in Threads :
        loc[t].post.sent =>
            /\ RequiredHeaders \subseteq DOMAIN loc[t].post.headers
            /\ loc[t].post.headers.Cookie = loc[t].cookies
            /\ loc[t].post.headers.XSameDomain = "1"
            /\ loc[t].post.query =
                   [bl |-> heap[loc[t].ret].BuildVersion, fsid |-> heap[loc[t].ret].SessionID,
                    hl |-> "en", reqid |-> loc[t].rid, rt |-> "c"]
            /\ loc[t].post.form.at = loc[t].authToken
            /\ ParseJSON(loc[t].post.form.freq).ok
            /\ ParseJSON(loc[t].post.form.freq).v = loc[t].req.Body

\* ---------------------------------------------------- the argument encoders
\* gen/method: EncodeActOnSourcesArgs and EncodeGenerateFreeFormStreamedArgs.
\* The arguments are Go values that the transport hands to json.Marshal; they
\* are modelled by the JSON values json.Marshal writes for them.

\* The source identifiers, actions and prompts of the requests.
SourceIdValues == {<<"s", "r", "c", "1">>, <<"s", "r", "c", "2">>}
SourceIdLists == UNION {[1..n -> SourceIdValues] : n \in 0..MaxSources}
Actions == {<<"d", "o", "_", "i", "t">>, <<>>}
Prompts == {<<"h", "e", "l", "l", "o">>, <<>>}

\* ActOnSources_encoder.go:17-20, part_001:16-19  var s []interface{} and an
\* append for each element: a nil slice when there was no element, which
\* json.Marshal writes as null, and a slice of the elements otherwise.
AppendedSlice(elems) == IF elems = <<>> THEN JNull ELSE JArr(elems)

\* The identifiers as the interface values appended.
SourceIDsInner(ids) == AppendedSlice([i \in 1..Len(ids) |-> JStr(ids[i])])

\* ActOnSources_encoder.go:41, part_001:32  []interface{}{2, nil, []interface{}{1}}
Metadata == JArr(<<JNum(<<"2">>), JNull, JArr(<<JNum(<<"1">>)>>)>>)

\* ActOnSources_encoder.go:13-45
EncodeActOnSourcesArgs(req) ==
    LET sourceIDsNested == JArr(<<JArr(<<SourceIDsInner(req.SourceIds)>>)>>)
        actionInfo ==
            JArr(<<JStr(req.Action),
                   JArr(<<JArr(<<JStr(<<"[", "C", "O", "N", "T", "E", "X", "T", "]">>),
                                 JStr(<<>>)>>)>>),
                   JStr(<<>>)>>)
    IN JArr(<<sourceIDsNested, JNull, JNull, JNull, JNull, actionInfo, JNull, Metadata>>)

\* part_001:13-36
EncodeGenerateFreeFormStreamedArgs(req) ==
    LET sourceIDsNested == JArr(<<SourceIDsInner(req.SourceIds)>>)
    IN JArr(<<sourceIDsNested, JStr(req.Prompt), JNull, JNull, JNull, JNull, JNull,
              Metadata>>)

\* A call of an encoder on a request; the caller encodes the same request a
\* second time.
CallEncoder(t, op, req, args) ==
    /\ StartCall(t, [Locals0 EXCEPT !.op = op, !.message = req, !.args = args])
    /\ UNCHANGED <<cachedParams, paramsMutex, heap, env, requestCounter, clients, pc,
                   gen, returned, issued>>

CallEncodeActOnSources(t) ==
    \E ids \in SourceIdLists, action \in Actions :
        LET req == [NoMessage EXCEPT !.SourceIds = ids, !.Action = action]
        IN CallEncoder(t, "EncodeActOnSourcesArgs", req, EncodeActOnSourcesArgs(req))

CallEncodeGenerateFreeFormStreamed(t) ==
    \E ids \in SourceIdLists, prompt \in Prompts :
        LET req == [NoMessage EXCEPT !.SourceIds = ids, !.Prompt = prompt]
        IN CallEncoder(t, "EncodeGenerateFreeFormStreamedArgs", req,
                       EncodeGenerateFreeFormStreamedArgs(req))

\* The second encoding of the request of the call before.
EncodeAgain(t) ==
    /\ pc[t] = "idle"
    /\ loc[t].op \in {"EncodeActOnSourcesArgs", "EncodeGenerateFreeFormStreamedArgs"}
    /\ loc[t].again = JNull
    /\ loc' = [loc EXCEPT ![t].again =
                   IF loc[t].op = "EncodeActOnSourcesArgs"
                   THEN EncodeActOnSourcesArgs(loc[t].message)
                   ELSE EncodeGenerateFreeFormStreamedArgs(loc[t].message)]
    /\ UNCHANGED <<cachedParams, paramsMutex, heap, env, requestCounter, clients, pc, calls,
                   gen, returned, issued>>

\* The encoders, called one after another by one caller.
NextEncoder ==
    \/ Budget(MaxCalls) /\ CallEncodeActOnSources(1)
    \/ Budget(MaxCalls) /\ CallEncodeGenerateFreeFormStreamed(1)
    \/ EncodeAgain(1)

SpecEncoder == Init /\ [][NextEncoder]_vars

\* The identifiers of a request as JSON strings in an array.
IdArray(ids) == JArr([i \in 1..Len(ids) |-> JStr(ids[i])])

\* C16: for every ActOnSources request, the empty list of identifiers
\* included, EncodeActOnSourcesArgs returns 8 slots: slot 0 is [[[id, ...]]]
\* with the identifiers in their order, slots 1 to 4 and 6 are null, slot 5
\* is [action, [["[CONTEXT]", ""]], ""], slot 7 is [2, null, [1]]; and a
\* second encoding of the request gives the same.
C16_ActOnSourcesShape ==
    \A t \in Threads :
        loc[t].op = "EncodeActOnSourcesArgs" =>
            /\ loc[t].args.t = "arr" /\ Len(loc[t].args.a) = 8
            /\ loc[t].args.a[1] = JArr(<<JArr(<<IdArray(loc[t].message.SourceIds)>>)>>)
            /\ \A n \in {2, 3, 4, 5, 7} : loc[t].args.a[n] = JNull
            /\ loc[t].args.a[6] =
                   JArr(<<JStr(loc[t].message.Action),
                          JArr(<<JArr(<<JStr(<<"[", "C", "O", "N", "T", "E", "X", "T", "]">>),
                                        JStr(<<>>)>>)>>),
                          JStr(<<>>)>>)
            /\ loc[t].args.a[8] = JArr(<<JNum(<<"2">>), JNull, JArr(<<JNum(<<"1">>)>>)>>)
            /\ loc[t].again # JNull => loc[t].again = loc[t].args

\* C17: for every GenerateFreeFormStreamed request, the empty list of
\* identifiers included, EncodeGenerateFreeFormStreamedArgs returns 8 slots:
\* slot 0 is [[id, ...]] with the identifiers in their order, slot 1 is the
\* prompt, slots 2 to 6 are null, slot 7 is [2, null, [1]].
C17_FreeFormShape ==
    \A t \in Threads :
        loc[t].op = "EncodeGenerateFreeFormStreamedArgs" =>
            /\ loc[t].args.t = "arr" /\ Len(loc[t].args.a) = 8
            /\ loc[t].args.a[1] = JArr(<<IdArray(loc[t].message.SourceIds)>>)
            /\ loc[t].args.a[2] = JStr(loc[t].message.Prompt)
            /\ \A n \in 3..7 : loc[t].args.a[n] = JNull
            /\ loc[t].args.a[8] = JArr(<<JNum(<<"2">>), JNull, JArr(<<JNum(<<"1">>)>>)>>)

\* C18: when the fetch has returned a page, each field of the result is what
\* its primary pattern captured when that matched, else what its alternative
\* pattern captured when that matched, else the default constant of that
\* field; the alternative capture is never the result of a field whose
\* primary pattern matched.
C18_PerFieldResolution ==
    \A t \in Threads :
        LET o == loc[t].outcome
        IN Resolved(t) /\ loc[t].fetched /\ ~o.err =>
               /\ heap[loc[t].ret].BuildVersion =
                      IF o.blPrimary # "" THEN o.blPrimary
                      ELSE IF o.blAlt # "" THEN o.blAlt
                      ELSE "boq_labs-tailwind-frontend_20251120.08_p0"
               /\ heap[loc[t].ret].SessionID =
                      IF o.sidPrimary # "" THEN o.sidPrimary
                      ELSE IF o.sidAlt # "" THEN o.sidAlt
                      ELSE "-8913782897795119716"

\* A fetch has returned for a page where both patterns of the build version
\* match and no pattern of the session id does: the result is the primary
\* capture with the default session id.
C18_Witness ==
    \E t \in Threads :
        /\ Resolved(t) /\ loc[t].fetched /\ ~loc[t].outcome.err
        /\ loc[t].outcome.blPrimary # "" /\ loc[t].outcome.blAlt # ""
        /\ loc[t].outcome.sidPrimary = "" /\ loc[t].outcome.sidAlt = ""
        /\ heap[loc[t].ret] = [BuildVersion |-> loc[t].outcome.blPrimary,
                               SessionID |-> "-8913782897795119716"]

\* C19: the source-path of every call of Do is "/notebook/" and the
\* call's scope when the scope is not empty and "/" when it is, whatever the
\* scope of the call before was; and the configured URL parameters of every
\* client are the three New gave it, with no source-path among them.
C19_SourcePathPerCall ==
    /\ \A t \in Threads :
           loc[t].op = "Do" =>
               loc[t].rpc.sourcePath =
                   IF loc[t].NotebookID # "" THEN <<"/notebook/", loc[t].NotebookID>>
                   ELSE <<"/">>
    /\ \A c \in 1..Len(clients) :
           /\ DOMAIN clients[c].URLParams = {"bl", "fsid", "hl"}
           /\ clients[c].URLParams.hl = "en"

\* A call of Do with no scope right after a call of Do with a scope: its
\* source-path is "/".
C19_Witness ==
    \E t \in Threads :
        /\ loc[t].op = "Do" /\ loc[t].NotebookID = ""
        /\ loc[t].prevCall = <<"nb1">>
        /\ loc[t].rpc.sourcePath = <<"/">>

\* C20: a call that found the cache empty and read exactly one of the two
\* override values does not use the value it read for its field: with
\* cookies it goes on to the fetch, and its result is what the fetch gives;
\* with no cookies it makes no fetch and returns the two defaults.
C20_OverrideAllOrNothing ==
    \A t \in Threads :
        LET l == loc[t]
            one == (l.bl # "") # (l.sid # "")
        IN /\ pc[t] = "gp_fetching" /\ l.cookies = "" => ~one
           /\ Resolved(t) /\ ~l.hit /\ one =>
                  /\ l.fetched <=> l.cookies # ""
                  /\ l.bl # "" => heap[l.ret].BuildVersion # l.bl
                  /\ l.sid # "" => heap[l.ret].SessionID # l.sid
                  /\ heap[l.ret].BuildVersion # "" /\ heap[l.ret].SessionID # ""
                  /\ l.cookies = "" =>
                         heap[l.ret] =
                             [BuildVersion |-> "boq_labs-tailwind-frontend_20251120.08_p0",
                              SessionID |-> "-8913782897795119716"]

\* A call with cookies that read the build version override and no session
\* id override has fetched and returned the build version of the page.
C20_Witness ==
    \E t \in Threads :
        /\ Resolved(t) /\ ~loc[t].hit /\ loc[t].fetched /\ loc[t].cookies # ""
        /\ loc[t].bl = "boq_labs-tailwind-frontend_env" /\ loc[t].sid = ""
        /\ ~loc[t].outcome.err /\ loc[t].outcome.blPrimary # ""
        /\ heap[loc[t].ret].BuildVersion = loc[t].outcome.blPrimary

\* A call with no cookies that read the session id override only has
\* returned the two defaults.
C20_WitnessNoCookies ==
    \E t \in Threads :
        /\ Resolved(t) /\ ~loc[t].hit /\ ~loc[t].fetched /\ loc[t].cookies = ""
        /\ loc[t].bl = "" /\ loc[t].sid = "-777"
        /\ heap[loc[t].ret].SessionID = "-8913782897795119716"

\* The newline-delimited fields of a frame's body after prefix stripping.
FieldsOf(frame) ==
    SplitN3(IF HasPrefix(Body(frame), <<")", "]", "}", "'">>)
            THEN TrimLeft(TrimPrefix(Body(frame), <<")", "]", "}", "'">>), "\n")
            ELSE Body(frame))

\* The frames that differ from a frame in the prefix, the length field and
\* what follows the chunk only.
SameChunkFrames(frame) ==
    {[frame EXCEPT !.guard = g, !.newlines = n, !.length = l, !.tail = tl] :
        g \in BOOLEAN, n \in 0..MaxNewlines, l \in LengthFields, tl \in Tails}

\* C21: when Execute has returned for a body with a second newline-delimited
\* field after prefix stripping, every body with the same second field,
\* whatever its first field and whatever follows its second newline, gives
\* the same payload or the same error.
C21_OnlySecondField ==
    LET frame == loc[1].resp.frame
    IN pc[1] = "idle" /\ Len(FieldsOf(frame)) >= 2 =>
           \A other \in SameChunkFrames(frame) :
               Len(FieldsOf(other)) >= 2 /\ FieldsOf(other)[2] = FieldsOf(frame)[2] =>
                   ExecuteResult(Response(200, other)) = loc[1].result

\* Execute has returned the payload of a body whose length field is not the
\* length of its chunk and that has a second chunk; a body with another first
\* field and nothing after the chunk has the same second field.
C21_Witness ==
    LET frame == loc[1].resp.frame
    IN /\ pc[1] = "idle" /\ Len(FieldsOf(frame)) = 3
       /\ frame.length = <<"3", "1">> /\ Len(frame.chunk.text) # 31
       /\ frame.tail = <<"\n", "2", "\n", "[", "]", "\n">>
       /\ loc[1].result.err = "" /\ loc[1].result.data = Payload
       /\ \E other \in SameChunkFrames(frame) :
              /\ other.tail = <<>> /\ FieldsOf(other)[1] # FieldsOf(frame)[1]
              /\ Len(FieldsOf(other)) = 2 /\ FieldsOf(other)[2] = FieldsOf(frame)[2]

\* The chunk-framed text of a frame: its length field, chunk and tail, with
\* no guard and no newline before them.
TextOnly(frame) == [frame EXCEPT !.guard = FALSE, !.newlines = 0]

\* C22: Execute returns for the guard, any number of newlines and a
\* chunk-framed text what it returns for the text alone; and for a body with
\* no guard nothing is stripped: leading newlines stay, the first field is
\* empty, and the field parsed is what follows the first newline up to the
\* next (nothing when there are two newlines or more, the length field when
\* there is one newline and a length field).
C22_GuardStrippingTransparent ==
    LET frame == loc[1].resp.frame
    IN pc[1] = "idle" =>
           /\ frame.guard /\ frame.hasLength /\ frame.length # <<>> =>
                  loc[1].result = ExecuteResult(Response(200, TextOnly(frame)))
           /\ ~frame.guard /\ frame.newlines >= 1 =>
                  /\ Head(Body(frame)) = "\n"
                  /\ frame.newlines >= 2 \/ (frame.hasLength /\ frame.length # <<>>) =>
                         loc[1].result.err = "parse outer response"
                  /\ frame.newlines = 1 /\ ~frame.hasLength =>
                         loc[1].result = ExecuteResult(Response(200, TextOnly(
                                             [frame EXCEPT !.hasLength = TRUE,
                                                           !.length = <<"3", "1">>])))

\* Execute has returned the payload of a body of the guard, two newlines and
\* the chunk-framed text.
C22_Witness ==
    LET frame == loc[1].resp.frame
    IN /\ pc[1] = "idle" /\ frame.guard /\ frame.newlines = 2
       /\ frame.hasLength /\ frame.length = <<"3", "1">>
       /\ loc[1].result.err = "" /\ loc[1].result.data = Payload
       /\ loc[1].result = ExecuteResult(Response(200, TextOnly(frame)))

\* Execute has returned a parse error for a body of one newline and the
\* chunk-framed text of a payload, with no guard.
C22_WitnessNoGuard ==
    LET frame == loc[1].resp.frame
    IN /\ pc[1] = "idle" /\ ~frame.guard /\ frame.newlines = 1
       /\ frame.hasLength /\ frame.length = <<"3", "1">>
       /\ frame.chunk.valid /\ frame.chunk.v = ExemplarValue
       /\ loc[1].result.err = "parse outer response"

\* The blocks of a sequence of blocks, one after another.
RECURSIVE Concat(_)
Concat(blocks) == IF blocks = <<>> THEN <<>> ELSE Head(blocks) \o Concat(Tail(blocks))

\* A call of Stream that got a 200 response and whose handler has not failed.
Streaming(t) ==
    /\ loc[t].op = "Stream" /\ pc[t] \in {"st_read", "idle"}
    /\ ~loc[t].resp.neterr /\ loc[t].resp.status = 200
    /\ loc[t].failedAt = 0

\* C23: in a call of Stream with a 200 response and a handler that does not
\* fail, the blocks delivered are never empty and, one after another, are
\* the bytes of the body read so far, each once and in order; when a Read
\* has returned io.EOF, Stream has returned no error and the blocks
\* delivered are the whole body; when a Read has returned another error,
\* Stream has returned a read error and the blocks delivered are all the
\* bytes read, those of the failed Read included.
C23_StreamDelivery ==
    \A t \in Threads :
        Streaming(t) =>
            /\ \A i \in 1..Len(loc[t].delivered) : loc[t].delivered[i] # <<>>
            /\ Concat(loc[t].delivered) \o loc[t].rest = loc[t].resp.body
            /\ pc[t] = "st_read" => loc[t].readErr \in {"", "nil"}
            /\ pc[t] = "idle" /\ loc[t].readErr = "EOF" =>
                   /\ loc[t].result.err = ""
                   /\ Concat(loc[t].delivered) = loc[t].resp.body
            /\ pc[t] = "idle" /\ loc[t].readErr = "error" =>
                   loc[t].result.err = "read error"
            /\ pc[t] = "idle" => loc[t].readErr \in {"EOF", "error"}

\* Stream has returned no error after the handler was given the body abc in
\* two blocks, in order.
C23_Witness ==
    /\ pc[1] = "idle" /\ Streaming(1) /\ loc[1].readErr = "EOF"
    /\ loc[1].resp.body = <<"a", "b", "c">>
    /\ loc[1].delivered = <<<<"a", "b">>, <<"c">>>>
    /\ loc[1].result.err = ""

\* Stream has returned a read error after a Read that failed; the handler
\* was given the two bytes read and one byte of the body was never read.
C23_WitnessReadError ==
    /\ pc[1] = "idle" /\ Streaming(1) /\ loc[1].readErr = "error"
    /\ loc[1].resp.body = <<"a", "b", "c">>
    /\ loc[1].delivered = <<<<"a", "b">>>> /\ loc[1].rest = <<"c">>
    /\ loc[1].result.err = "read error"

\* A fetch outcome that gives no value: an error, or a page no pattern matches.
NothingFetched(o) ==
    o.err \/ (o.blPrimary = "" /\ o.blAlt = "" /\ o.sidPrimary = "" /\ o.sidAlt = "")

\* C24: a resolve whose fetch failed or matched no pattern returns the pair
\* of defaults; what a resolve has stored stays the cached value for as long
\* as no invalidate has been made; and every later resolve before an
\* invalidate, whatever its cookies, returns that same value and makes no
\* fetch.
C24_FallbackIsCached ==
    /\ \A t \in Threads :
           Resolved(t) /\ loc[t].fetched /\ NothingFetched(loc[t].outcome) =>
               heap[loc[t].ret] = [BuildVersion |-> "boq_labs-tailwind-frontend_20251120.08_p0",
                                   SessionID |-> "-8913782897795119716"]
    /\ \A r \in returned : r.gen = gen /\ ~r.hit => cachedParams = r.ret
    /\ \A r, r2 \in returned :
           r.gen = r2.gen /\ ~r.hit /\ r2.hit => r2.ret = r.ret /\ ~r2.fetched
    /\ \A t \in Threads :
           Resolved(t) /\ loc[t].hit => ~loc[t].fetched /\ loc[t].outcome = NoOutcome

\* A resolve whose fetch gave no value has returned the defaults, and a later
\* resolve with cookies has returned the same cached value without a fetch.
C24_Witness ==
    \E u \in Threads :
        /\ pc[u] = "idle" /\ Resolved(u)
        /\ loc[u].hit /\ loc[u].cookies # "" /\ ~loc[u].fetched
        /\ cachedParams = loc[u].ret
        /\ heap[loc[u].ret] = [BuildVersion |-> "boq_labs-tailwind-frontend_20251120.08_p0",
                               SessionID |-> "-8913782897795119716"]
        /\ \E r \in returned :
               r.gen = gen /\ r.fetched /\ ~r.hit /\ r.ret = loc[u].ret

\* The threads between the Lock and the Unlock of GetAPIParams (the fetch
\* included) or of ClearAPIParamsCache.
InCriticalSection ==
    {t \in Threads : pc[t] \in {"gp_cached", "gp_getenv_bl", "gp_getenv_sid", "gp_override",
                                 "gp_fetching", "cc_body"}}

\* The mutex is held by the one thread in a critical section, if there is one.
MutualExclusion ==
    /\ \A t, u \in InCriticalSection : t = u
    /\ \A t \in InCriticalSection : paramsMutex = t
    /\ InCriticalSection = {} => paramsMutex = 0

\* A step that changes the cache or the count of invalidations is a step of
\* the thread that holds the mutex, and while a resolve is in its critical
\* section no invalidate is made and no other thread changes the cache.
OnlyHolderWrites ==
    /\ cachedParams' # cachedParams \/ gen' # gen =>
           /\ paramsMutex \in Threads
           /\ pc'[paramsMutex] # pc[paramsMutex]
           /\ \A u \in Threads \ {paramsMutex} : pc'[u] = pc[u] /\ loc'[u] = loc[u]
    /\ \A t \in Threads :
           pc[t] \in {"gp_cached", "gp_getenv_bl", "gp_getenv_sid", "gp_override",
                      "gp_fetching"} =>
               /\ gen' = gen
               /\ cachedParams' # cachedParams =>
                      pc'[t] # pc[t] /\ cachedParams' = loc'[t].ret

\* C25: resolve and invalidate are critical sections of one mutex, the fetch
\* included: at most one thread is in one, it holds the mutex, the cache is
\* changed only by the thread that holds the mutex, and from the Lock of a
\* resolve to its return no invalidate takes place and the only value stored
\* is the one the resolve returns.
C25_MutuallyExclusive == []MutualExclusion /\ [][OnlyHolderWrites]_vars

\* A resolve is in its fetch, holding the mutex, while an invalidate and no
\* other call waits for the mutex.
C25_Witness ==
    \E t, u \in Threads :
        /\ pc[t] = "gp_fetching" /\ paramsMutex = t
        /\ pc[u] = "cc_lock" /\ loc[u].overlaps
        /\ cachedParams = Nil

\* C26: under fair scheduling, with every HTTP exchange and every Read
\* returning, every call of resolve, of invalidate and of Stream that has
\* begun returns; and whenever no call is under way the mutex is free,
\* whichever way the calls returned.
C26_EveryCallReturns ==
    /\ \A t \in Threads : (pc[t] # "idle") ~> (pc[t] = "idle")
    /\ []((\A t \in Threads : pc[t] = "idle") => paramsMutex = 0)

\* Three calls have returned, among them an invalidate and a call of Stream
\* that read the body to its end, and one call's fetch failed; no call is
\* under way and the mutex is free.
C26_Witness ==
    /\ \A t \in Threads : pc[t] = "idle"
    /\ paramsMutex = 0
    /\ calls = 3 /\ gen >= 1
    /\ loc[1].op = "Stream" /\ loc[1].readErr = "EOF" /\ loc[1].result.err = ""
    /\ \E r \in returned : r.fetched /\ r.fellBack

====
